---- MODULE Spec2Model ----
(***************************************************************************)
(* Model of the search-augmented chat orchestrator:                        *)
(*   modules/brave_search.py  BraveSearchClient.search / search_with_retry *)
(*   modules/chat_handler.py  ChatHandler.get_response,                    *)
(*                            get_response_with_retry, count_tokens,       *)
(*                            _trim_messages                               *)
(* Strings whose characters matter (error messages scanned for status      *)
(* codes) are sequences of one-character strings.  Texts whose length is   *)
(* all that matters (prompt contents) are sequences of line lengths.       *)
(***************************************************************************)
EXTENDS Integers, Sequences, FiniteSets, TLC

(***************************************************************************)
(* Bounds of the model.                                                    *)
(***************************************************************************)
MaxRetries == 2
MaxChatRetries == 3
MaxHist == 2
MaxTrimHist == 5

(***************************************************************************)
(* Character strings.                                                      *)
(***************************************************************************)
DigitChar == <<"0", "1", "2", "3", "4", "5", "6", "7", "8", "9">>

\* str(n) for a three-digit HTTP status code
StatusStr(n) ==
    << DigitChar[(n \div 100) + 1],
       DigitChar[((n \div 10) % 10) + 1],
       DigitChar[(n % 10) + 1] >>

\* s[:n]
Take(s, n) == IF Len(s) <= n THEN s ELSE SubSeq(s, 1, n)

\* sub in s
Contains(s, sub) ==
    \E i \in 1..(Len(s) - Len(sub) + 1) : SubSeq(s, i, i + Len(sub) - 1) = sub

\* the fixed messages of search(); none of them holds a digit
TimeoutMsg == <<"t", "i", "m", "e", "o", "u", "t">>
ConnectionMsg == <<"c", "o", "n", "n", "e", "c", "t">>
UnexpectedPrefix == <<"u", "n", "e", "x", "p", "e", "c", "t", "e", "d", ":", " ">>
MaxRetriesMsg == <<"m", "a", "x", " ", "r", "e", "t", "r", "i", "e", "s">>
HttpPrefix == <<"H", "T", "T", "P", " ">>
ErrorTextLimit == 300

(***************************************************************************)
(* What the search provider can answer to one request.                     *)
(***************************************************************************)
Bodies == { <<>>, <<"o", "k">>, <<"4", "2", "9">> }
Statuses == {200, 400, 401, 429, 500, 502, 503, 504}
RetryStatuses == {429, 502, 503, 504}
PayloadIds == {1, 2}

\* kind "http": a response arrived; json says what response.json() gives
\* for a 200: "payload" (a result document), "empty" ({}), "errkey" (a
\* document with an "error" member holding text), "malformed" (json()
\* raises, text is the exception's text).
\* kind "timeout" / "connection" / "exception": requests.get raised.
Responses ==
    [kind : {"http"}, status : Statuses \ {200}, json : {"none"},
     text : Bodies, id : {0}]
    \cup [kind : {"http"}, status : {200}, json : {"payload"},
          text : {<<>>}, id : PayloadIds]
    \cup [kind : {"http"}, status : {200}, json : {"empty"},
          text : {<<>>}, id : {0}]
    \cup [kind : {"http"}, status : {200}, json : {"errkey", "malformed"},
          text : Bodies, id : {0}]
    \cup [kind : {"timeout", "connection"}, status : {0}, json : {"none"},
          text : {<<>>}, id : {0}]
    \cup [kind : {"exception"}, status : {0}, json : {"none"},
          text : Bodies, id : {0}]

(***************************************************************************)
(* Result dictionaries: keys is the set of the dict's keys, error the      *)
(* value under "error", id the identity of a result document.              *)
(***************************************************************************)
NoResult == [keys |-> {"none"}, error |-> <<>>, id |-> 0]
EmptyDict == [keys |-> {}, error |-> <<>>, id |-> 0]
Payload(i) == [keys |-> {"web", "query"}, error |-> <<>>, id |-> i]
Failure(msg) == [keys |-> {"error"}, error |-> msg, id |-> 0]

\* BraveSearchClient.search: one network call, classified
search(r) ==
    IF r.kind = "http"
    THEN IF r.status = 200
         THEN CASE r.json = "payload" -> Payload(r.id)
                [] r.json = "empty" -> EmptyDict
                [] r.json = "errkey" -> Failure(r.text)
                [] OTHER -> Failure(UnexpectedPrefix \o r.text)
         ELSE Failure(HttpPrefix \o StatusStr(r.status) \o <<":", " ">>
                      \o Take(r.text, ErrorTextLimit))
    ELSE CASE r.kind = "timeout" -> Failure(TimeoutMsg)
           [] r.kind = "connection" -> Failure(ConnectionMsg)
           [] OTHER -> Failure(UnexpectedPrefix \o r.text)

\* not result or "error" not in result
IsReturnedAtOnce(res) == res.keys = {} \/ "error" \notin res.keys

\* "429" in error_msg or "502" in error_msg or ...
MentionsRetryCode(msg) ==
    \E c \in RetryStatuses : Contains(msg, StatusStr(c))

\* attempt < retries, with the off-by-one variant
CanRetryInclusive(a, n) == a <= n
CanRetry(a, n) == a < n

\* backoff *= 2, with a flat-delay variant
NextBackoffFlat(b) == b
NextBackoff(b) == b * 2

(***************************************************************************)
(* State.                                                                  *)
(***************************************************************************)
VARIABLES
    sr_pc,        \* search_with_retry: "idle", "loop", "done"
    sr_retries,   \* its retries argument
    sr_attempt,   \* loop variable attempt
    sr_backoff,   \* local backoff
    sr_slept,     \* total time.sleep so far
    sr_calls,     \* network calls made by this call
    sr_log,       \* provider responses consumed, in order
    sr_result,    \* returned value
    tokenizer,    \* "missing": tiktoken not importable (TIKTOKEN_AVAILABLE
                  \* False); "unknown_model": importable, encoding_for_model
                  \* raises; "exact": importable, the model has an encoding
    gr_pc,        \* get_response_with_retry: "idle", "loop", "done"
    gr_messages,  \* its messages argument (the caller's transcript)
    gr_context,   \* its search_context argument
    gr_retries,   \* its retries argument
    gr_attempt,   \* loop variable attempt
    gr_slept,     \* total time.sleep so far
    gr_calls,     \* provider calls made by this call
    gr_log,       \* provider outcomes consumed, in order
    gr_sent,      \* the messages of the last provider call
    gr_ctx_used,  \* search_context as appended to the system message
    gr_inner,     \* what the last get_response did (returned or raised)
    gr_result,    \* what get_response_with_retry did
    tr_pc,        \* _trim_messages: "ready", "returned"
    tr_messages,  \* its messages argument
    tr_max,       \* its max_tokens argument
    tr_out,       \* the list it returned
    tg_pc,        \* search trigger: "off", "ready", "should_search", "extract"
    tg_utterance, \* user_message
    tg_search,    \* what should_search returned
    tg_query,     \* what extract_search_query returned
    pm_pc,        \* BraveSearchClient.search up to the request: "off",
                  \* "ready", "called", "built"
    pm_args,      \* its arguments: query, count and **kwargs
    pm_params,    \* the params of the outgoing request
    fm_pc,        \* formatters: "off", "ready", "detailed", "simple",
                  \* "display"
    fm_data,      \* search_data
    fm_out,       \* what the formatter returned or raised
    hp_pc,        \* a call on the caller's list: "off", "ready", "trimmed",
                  \* "responded"
    hp_heap,      \* the list objects: hp_heap[1] is the caller's list, the
                  \* others are the lists the call has created
    hp_before,    \* the contents of the caller's list when the call began
    hp_ret,       \* the list object _trim_messages returned, or the one
                  \* get_response passed to the provider
    ss_pc,        \* the app: "off", "idle" (waiting for an event), in
                  \* a chat turn "search", "respond", "turn_done",
                  \* "turn_aborted" (ended by an exception), and
                  \* in the ask-about-results handler "ask"
    ss_chat,      \* st.session_state.chat_messages
    ss_results,   \* st.session_state.search_results
    ss_query,     \* st.session_state.current_search_query
    ss_turn       \* the locals of the script run in progress (a chat
                  \* turn or the ask-about-results handler)

searchVars == <<sr_pc, sr_retries, sr_attempt, sr_backoff, sr_slept,
                sr_calls, sr_log, sr_result>>

chatVars == <<gr_pc, gr_messages, gr_context, gr_retries, gr_attempt,
              gr_slept, gr_calls, gr_log, gr_sent, gr_ctx_used, gr_inner,
              gr_result>>

trimVars == <<tr_pc, tr_messages, tr_max, tr_out>>

triggerVars == <<tg_pc, tg_utterance, tg_search, tg_query>>

paramVars == <<pm_pc, pm_args, pm_params>>

formatVars == <<fm_pc, fm_data, fm_out>>

heapVars == <<hp_pc, hp_heap, hp_before, hp_ret>>

sessionVars == <<ss_pc, ss_chat, ss_results, ss_query, ss_turn>>

extraVars == <<triggerVars, paramVars, formatVars, heapVars, sessionVars>>

vars == <<searchVars, tokenizer, chatVars, trimVars, extraVars>>

SearchFrame == UNCHANGED <<tokenizer, chatVars, trimVars, extraVars>>
ChatFrame == UNCHANGED <<tokenizer, searchVars, trimVars, extraVars>>
TrimFrame == UNCHANGED <<tokenizer, searchVars, chatVars, extraVars>>
coreVars == <<tokenizer, searchVars, chatVars, trimVars>>
TriggerFrame ==
    UNCHANGED <<coreVars, paramVars, formatVars, heapVars, sessionVars>>
ParamFrame ==
    UNCHANGED <<coreVars, triggerVars, formatVars, heapVars, sessionVars>>
FormatFrame ==
    UNCHANGED <<coreVars, triggerVars, paramVars, heapVars, sessionVars>>
HeapFrame ==
    UNCHANGED <<searchVars, chatVars, trimVars, triggerVars, paramVars,
                formatVars, sessionVars>>
SessionFrame ==
    UNCHANGED <<coreVars, triggerVars, paramVars, formatVars, heapVars>>

\* a dict with no key
EmptyMap == [k \in {} |-> ""]

TriggerIdle ==
    /\ tg_pc = "off"
    /\ tg_utterance = <<>>
    /\ tg_search = FALSE
    /\ tg_query = <<>>

ParamIdle ==
    /\ pm_pc = "off"
    /\ pm_args = EmptyMap
    /\ pm_params = EmptyMap

FormatIdle ==
    /\ fm_pc = "off"
    /\ fm_data = EmptyMap
    /\ fm_out = EmptyMap

HeapIdle ==
    /\ hp_pc = "off"
    /\ hp_heap = <<>>
    /\ hp_before = <<>>
    /\ hp_ret = 0

SessionIdle ==
    /\ ss_pc = "off"
    /\ ss_chat = <<>>
    /\ ss_results = EmptyMap
    /\ ss_query = <<>>
    /\ ss_turn = EmptyMap

ExtraIdle ==
    TriggerIdle /\ ParamIdle /\ FormatIdle /\ HeapIdle /\ SessionIdle

(***************************************************************************)
(* Texts of the prompt.  A text is the sequence of its lines, as           *)
(* text.split('\n') gives them: "" is one empty line, "\n" is two.  Of a   *)
(* line the model keeps its length and whether it holds a special token of *)
(* the tokenizer (such as "<|endoftext|>"), on which encoding.encode       *)
(* raises.  None is the empty sequence.                                    *)
(***************************************************************************)
Line(n) == [len |-> n, special |-> FALSE]
SpecialLine(n) == [len |-> n, special |-> TRUE]
Lines(ns) == [i \in 1..Len(ns) |-> Line(ns[i])]
NoneText == <<>>
EmptyText == <<Line(0)>>
NewlineText == <<Line(0), Line(0)>>
Str(n) == <<Line(n)>>
SpecialStr(n) == <<SpecialLine(n)>>

RECURSIVE SumSeq(_)
SumSeq(s) == IF s = <<>> THEN 0 ELSE Head(s) + SumSeq(Tail(s))

\* len(text)
TextLen(t) == SumSeq([i \in 1..Len(t) |-> t[i].len]) + Len(t) - 1

\* a + b: the last line of a and the first line of b become one line
JoinLines(x, y) ==
    [len |-> x.len + y.len, special |-> x.special \/ y.special]
Concat(a, b) ==
    SubSeq(a, 1, Len(a) - 1) \o <<JoinLines(a[Len(a)], b[1])>> \o Tail(b)

\* truth value of an Optional[str]
Truthy(t) == t # NoneText /\ TextLen(t) > 0

\* lengths of the fixed strings of get_response
PersonaLen == 39
HeaderLen == 25
NoticeLen == 20
ContextTokenLimit == 2000
PromptTokenLimit == 4000
FallbackCharsPerToken == 4

TIKTOKEN_AVAILABLE == tokenizer # "missing"

\* len(encoding.encode(text)): the tokenizer of the library, taken to give
\* one token per character
EncodeLen(n) == n

\* encoding.encode(text) raises on a text that holds a special token
EncodeRaises(text) == \E i \in 1..Len(text) : text[i].special

\* ChatHandler.count_tokens: the estimate len(text) // 4 when the library
\* is missing, when encoding_for_model raises, and for the texts on which
\* encode raises
count_tokens(text) ==
    IF tokenizer = "exact" /\ ~EncodeRaises(text)
    THEN EncodeLen(TextLen(text))
    ELSE TextLen(text) \div FallbackCharsPerToken

(***************************************************************************)
(* Messages are [role, content, timestamp]; a transcript is a sequence of   *)
(* them.  The timestamp tells messages of equal content apart; the system  *)
(* message, which has none, carries 0.                                     *)
(***************************************************************************)
Msg(r, c, ts) == [role |-> r, content |-> c, timestamp |-> ts]

RECURSIVE SumTokens(_)
SumTokens(ms) ==
    IF ms = <<>> THEN 0
    ELSE count_tokens(Head(ms).content) + SumTokens(Tail(ms))

\* list.insert(i, x), i counted from 0
InsertAt(l, i, x) ==
    IF i >= Len(l) THEN Append(l, x)
    ELSE SubSeq(l, 1, i) \o <<x>> \o SubSeq(l, i + 1, Len(l))

\* trimmed_messages.insert(1, message)
TrimInsert(trimmed, m) == InsertAt(trimmed, 1, m)

\* current_tokens + message_tokens > max_tokens, with the variant >=
TrimExceedsInclusive(cur, t, max) == cur + t >= max
TrimExceeds(cur, t, max) == cur + t > max

\* the loop of _trim_messages over reversed(conversation_messages); i is
\* the position in conv of the message examined next
RECURSIVE TrimLoop(_, _, _, _, _)
TrimLoop(conv, i, cur, trimmed, max) ==
    IF i = 0 THEN trimmed
    ELSE LET t == count_tokens(conv[i].content)
         IN IF TrimExceeds(cur, t, max) THEN trimmed
            ELSE TrimLoop(conv, i - 1, cur + t, TrimInsert(trimmed, conv[i]),
                          max)

\* ChatHandler._trim_messages
trim_messages(messages, max) ==
    IF Len(messages) <= 1 THEN messages
    ELSE TrimLoop(Tail(messages), Len(messages) - 1,
                  count_tokens(messages[1].content), <<messages[1]>>, max)

\* the loop of get_response that keeps whole lines of the context while the
\* estimate stays within the limit
RECURSIVE TruncLoop(_, _, _)
TruncLoop(lines, i, truncated) ==
    IF i > Len(lines) THEN truncated
    ELSE LET test == Concat(Concat(truncated, <<lines[i]>>), NewlineText)
         IN IF count_tokens(test) > ContextTokenLimit THEN truncated
            ELSE TruncLoop(lines, i + 1, test)

\* the guard of the context truncation
ContextOverLimit(ctx) ==
    TIKTOKEN_AVAILABLE /\ count_tokens(ctx) > ContextTokenLimit

\* search_context as get_response appends it
BoundContext(ctx) ==
    IF ContextOverLimit(ctx)
    THEN Concat(TruncLoop(ctx, 1, EmptyText),
                Concat(NewlineText, Str(NoticeLen)))
    ELSE ctx

\* system_message["content"]
SystemContent(ctx) ==
    IF Truthy(ctx)
    THEN Concat(Concat(Str(PersonaLen),
                       Concat(Concat(NewlineText, NewlineText),
                              Concat(Str(HeaderLen), NewlineText))),
                BoundContext(ctx))
    ELSE Str(PersonaLen)

\* [system_message] + messages
FullMessages(messages, ctx) ==
    <<Msg("system", SystemContent(ctx), 0)>> \o messages

\* the guard of the prompt trimming
PromptOverLimit(full) ==
    TIKTOKEN_AVAILABLE /\ SumTokens(full) > PromptTokenLimit

\* the messages get_response passes to chat.completions.create
BuildMessages(messages, ctx) ==
    LET full == FullMessages(messages, ctx)
    IN IF PromptOverLimit(full) THEN trim_messages(full, PromptTokenLimit)
       ELSE full



(***************************************************************************)
(* get_response: what the provider call can do, and what comes back.       *)
(***************************************************************************)
ProviderExceptions ==
    {"RateLimitError", "AuthenticationError", "APIError", "Exception"}
ProviderResponses ==
    {"no_choices", "no_message", "null_content", "blank_content", "content"}
ProviderOutcomes == ProviderExceptions \cup ProviderResponses

\* a call that returned the string built from template kind, and a call
\* that raised exc
Returned(kind) == [raised |-> "none", kind |-> kind]
Raised(exc) == [raised |-> exc, kind |-> "none"]
NotCalled == [raised |-> "none", kind |-> "not_called"]

\* except Exception as e, with the variant that lets it through
PropagateOther(exc) == Raised(exc)
CatchOther(exc) == Returned("diag_unexpected")

\* ChatHandler.get_response, from the provider call on
get_response(o) ==
    CASE o = "RateLimitError" -> Returned("diag_rate_limit")
      [] o = "AuthenticationError" -> Returned("diag_auth")
      [] o = "APIError" -> Returned("diag_api_error")
      [] o = "Exception" -> CatchOther(o)
      [] o = "no_choices" -> Returned("diag_no_choices")
      [] o = "no_message" -> Returned("diag_no_message")
      [] o = "null_content" -> Returned("diag_null_content")
      [] o = "blank_content" -> Returned("diag_blank_content")
      [] OTHER -> Returned("content")

RECURSIVE Pow2(_)
Pow2(n) == IF n <= 0 THEN 1 ELSE 2 * Pow2(n - 1)

\* the except clauses of get_response_with_retry: does the loop continue,
\* how long does it sleep, what does it return
RetryContinues(inner, attempt, retries) ==
    inner.raised # "none" /\ attempt < retries - 1
RetrySleep(inner, attempt, retries) ==
    IF ~RetryContinues(inner, attempt, retries) THEN 0
    ELSE IF inner.raised = "RateLimitError" THEN Pow2(attempt) ELSE 1
RetryReturn(inner) ==
    IF inner.raised = "none" THEN inner
    ELSE IF inner.raised = "RateLimitError"
         THEN Returned("diag_retry_rate_limit")
         ELSE Returned("diag_retry_error")

(***************************************************************************)
(* Inputs of the chat client.                                              *)
(***************************************************************************)
SeqsUpTo(S, n) == UNION {[1..k -> S] : k \in 0..n}

HistContents == {Str(40), Str(6000), Str(15000), SpecialStr(6000)}
\* get_response takes any list of messages: a history may hold messages of
\* the system role, at any place
HistRoles == {"system", "user", "assistant"}
\* a transcript from the roles and contents of its messages
Transcript(f) == [i \in 1..Len(f) |-> Msg(f[i][1], f[i][2], i)]
Histories == {Transcript(f) : f \in SeqsUpTo(HistRoles \X HistContents, MaxHist)}
Contexts ==
    {NoneText, EmptyText, Str(100), Lines(<<4000, 4000, 4000>>), Str(9000),
     <<Line(4000), SpecialLine(4000), Line(4000)>>}

ChatIdle ==
    /\ gr_pc = "idle"
    /\ gr_messages = <<>>
    /\ gr_context = NoneText
    /\ gr_retries = 0
    /\ gr_attempt = 0
    /\ gr_slept = 0
    /\ gr_calls = 0
    /\ gr_log = <<>>
    /\ gr_sent = <<>>
    /\ gr_ctx_used = NoneText
    /\ gr_inner = NotCalled
    /\ gr_result = NotCalled

\* entry of get_response_with_retry
ChatStart ==
    /\ gr_pc = "idle"
    /\ \E h \in Histories : gr_messages' = h
    /\ \E c \in Contexts : gr_context' = c
    /\ \E n \in 0..MaxChatRetries : gr_retries' = n
    /\ gr_pc' = "loop"
    /\ gr_attempt' = 0
    /\ gr_slept' = 0
    /\ gr_calls' = 0
    /\ gr_log' = <<>>
    /\ gr_sent' = <<>>
    /\ gr_ctx_used' = NoneText
    /\ gr_inner' = NotCalled
    /\ gr_result' = NotCalled
    /\ ChatFrame

\* one iteration: get_response builds the prompt, calls the provider once
\* and maps the outcome; the except clauses of the loop act on what it did
ChatAttempt ==
    /\ gr_pc = "loop"
    /\ gr_attempt < gr_retries
    /\ \E o \in ProviderOutcomes :
        LET inner == get_response(o)
            again == RetryContinues(inner, gr_attempt, gr_retries)
        IN /\ gr_log' = Append(gr_log, o)
           /\ gr_inner' = inner
           /\ gr_slept' = gr_slept + RetrySleep(inner, gr_attempt, gr_retries)
           /\ gr_attempt' = IF again THEN gr_attempt + 1 ELSE gr_attempt
           /\ gr_pc' = IF again THEN "loop" ELSE "done"
           /\ gr_result' = IF again THEN gr_result ELSE RetryReturn(inner)
    /\ gr_calls' = gr_calls + 1
    /\ gr_sent' = BuildMessages(gr_messages, gr_context)
    /\ gr_ctx_used' = IF Truthy(gr_context) THEN BoundContext(gr_context)
                      ELSE NoneText
    /\ UNCHANGED <<gr_messages, gr_context, gr_retries>>
    /\ ChatFrame

\* the loop made no (further) iteration: the statement after the loop
ChatFallback ==
    /\ gr_pc = "loop"
    /\ ~(gr_attempt < gr_retries)
    /\ gr_result' = Returned("diag_fallback")
    /\ gr_pc' = "done"
    /\ UNCHANGED <<gr_messages, gr_context, gr_retries, gr_attempt, gr_slept,
                   gr_calls, gr_log, gr_sent, gr_ctx_used, gr_inner>>
    /\ ChatFrame

\* the caller has the text and the locals of the call are gone; the client
\* is ready for the next call
ChatFinish ==
    /\ gr_pc = "done"
    /\ gr_pc' = "idle"
    /\ gr_messages' = <<>>
    /\ gr_context' = NoneText
    /\ gr_retries' = 0
    /\ gr_attempt' = 0
    /\ gr_slept' = 0
    /\ gr_calls' = 0
    /\ gr_log' = <<>>
    /\ gr_sent' = <<>>
    /\ gr_ctx_used' = NoneText
    /\ gr_inner' = NotCalled
    /\ gr_result' = NotCalled
    /\ ChatFrame

(***************************************************************************)
(* _trim_messages called on its own.                                       *)
(***************************************************************************)
TrimContents == {Str(0), Str(200), Str(400), SpecialStr(400)}
TrimSystems == {Str(200), Str(1200)}
TrimBudgets == {0, 250, 600}
TrimRole(i) == IF i % 2 = 1 THEN "user" ELSE "assistant"
TrimInputs ==
    {<<Msg("system", sys, 0)>> \o [i \in 1..Len(f) |-> Msg(TrimRole(i), f[i], i)] :
        sys \in TrimSystems, f \in SeqsUpTo(TrimContents, MaxTrimHist)}

TrimIdle ==
    /\ tr_pc = "ready"
    /\ tr_messages = <<>>
    /\ tr_max = 0
    /\ tr_out = <<>>

TrimCall ==
    /\ tr_pc = "ready"
    /\ tr_out' = trim_messages(tr_messages, tr_max)
    /\ tr_pc' = "returned"
    /\ UNCHANGED <<tr_messages, tr_max>>
    /\ TrimFrame

SearchIdle ==
    /\ sr_pc = "idle"
    /\ sr_retries = 0
    /\ sr_attempt = 0
    /\ sr_backoff = 1
    /\ sr_slept = 0
    /\ sr_calls = 0
    /\ sr_log = <<>>
    /\ sr_result = NoResult

(***************************************************************************)
(* search_with_retry                                                       *)
(***************************************************************************)
SearchInit ==
    /\ SearchIdle
    /\ tokenizer = "missing"
    /\ ChatIdle
    /\ TrimIdle
    /\ ExtraIdle

\* entry: backoff = 1.0, the loop starts at attempt 0
SearchStart ==
    /\ sr_pc = "idle"
    /\ \E n \in -1..MaxRetries : sr_retries' = n
    /\ sr_pc' = "loop"
    /\ sr_attempt' = 0
    /\ sr_backoff' = 1
    /\ sr_slept' = 0
    /\ sr_calls' = 0
    /\ sr_log' = <<>>
    /\ sr_result' = NoResult
    /\ SearchFrame

\* one iteration that returns the value of search() unchanged because it is
\* falsy or has no "error" key
SearchReturnResult ==
    /\ sr_pc = "loop"
    /\ sr_attempt < sr_retries + 1
    /\ \E r \in Responses :
        /\ IsReturnedAtOnce(search(r))
        /\ sr_log' = Append(sr_log, r)
        /\ sr_result' = search(r)
    /\ sr_calls' = sr_calls + 1
    /\ sr_pc' = "done"
    /\ UNCHANGED <<sr_retries, sr_attempt, sr_backoff, sr_slept>>
    /\ SearchFrame

\* one iteration that sleeps, doubles the backoff and continues
SearchBackoff ==
    /\ sr_pc = "loop"
    /\ sr_attempt < sr_retries + 1
    /\ \E r \in Responses :
        /\ ~IsReturnedAtOnce(search(r))
        /\ MentionsRetryCode(search(r).error)
        /\ CanRetry(sr_attempt, sr_retries)
        /\ sr_log' = Append(sr_log, r)
    /\ sr_calls' = sr_calls + 1
    /\ sr_slept' = sr_slept + sr_backoff
    /\ sr_backoff' = NextBackoff(sr_backoff)
    /\ sr_attempt' = sr_attempt + 1
    /\ UNCHANGED <<sr_pc, sr_retries, sr_result>>
    /\ SearchFrame

\* one iteration that returns the failure: not retryable, or no attempt left
SearchReturnFailure ==
    /\ sr_pc = "loop"
    /\ sr_attempt < sr_retries + 1
    /\ \E r \in Responses :
        /\ ~IsReturnedAtOnce(search(r))
        /\ ~(MentionsRetryCode(search(r).error)
             /\ CanRetry(sr_attempt, sr_retries))
        /\ sr_log' = Append(sr_log, r)
        /\ sr_result' = search(r)
    /\ sr_calls' = sr_calls + 1
    /\ sr_pc' = "done"
    /\ UNCHANGED <<sr_retries, sr_attempt, sr_backoff, sr_slept>>
    /\ SearchFrame

\* the loop ran out of iterations: the statement after the loop
SearchExhausted ==
    /\ sr_pc = "loop"
    /\ ~(sr_attempt < sr_retries + 1)
    /\ sr_result' = Failure(MaxRetriesMsg)
    /\ sr_pc' = "done"
    /\ UNCHANGED <<sr_retries, sr_attempt, sr_backoff, sr_slept, sr_calls,
                   sr_log>>
    /\ SearchFrame

\* the caller has the value and the locals of the call are gone; the
\* client is ready for the next call
SearchFinish ==
    /\ sr_pc = "done"
    /\ sr_pc' = "idle"
    /\ sr_retries' = 0
    /\ sr_attempt' = 0
    /\ sr_backoff' = 1
    /\ sr_slept' = 0
    /\ sr_calls' = 0
    /\ sr_log' = <<>>
    /\ sr_result' = NoResult
    /\ SearchFrame

SearchNext ==
    \/ SearchStart
    \/ SearchReturnResult
    \/ SearchBackoff
    \/ SearchReturnFailure
    \/ SearchExhausted
    \/ SearchFinish

SearchSpec == SearchInit /\ [][SearchNext]_vars

(***************************************************************************)
(* The chat client on its own, in each configuration of the tokenizer.     *)
(***************************************************************************)
Tokenizers == {"missing", "unknown_model", "exact"}

ChatInit ==
    /\ tokenizer \in Tokenizers
    /\ ChatIdle
    /\ SearchIdle
    /\ TrimIdle
    /\ ExtraIdle

ChatNext ==
    \/ ChatStart
    \/ ChatAttempt
    \/ ChatFallback
    \/ ChatFinish

ChatSpec == ChatInit /\ [][ChatNext]_vars

(***************************************************************************)
(* _trim_messages on its own: the inputs are drawn by Init.                *)
(***************************************************************************)
TrimInit ==
    /\ tokenizer \in Tokenizers
    /\ tr_pc = "ready"
    /\ tr_messages \in TrimInputs
    /\ tr_max \in TrimBudgets
    /\ tr_out = <<>>
    /\ ChatIdle
    /\ SearchIdle
    /\ ExtraIdle

TrimNext == TrimCall

TrimSpec == TrimInit /\ [][TrimNext]_vars

\* the state of the components that a specification leaves alone
CoreIdle ==
    /\ tokenizer = "missing"
    /\ SearchIdle
    /\ ChatIdle
    /\ TrimIdle

(***************************************************************************)
(* The search trigger: should_search and extract_search_query.             *)
(* An utterance is a sequence of characters.  The characters of the        *)
(* Japanese phrases are named in ASCII, one name per character: kanji and  *)
(* katakana in capitals (KEN, SAKU), hiragana in lower case (te, ni), "QW" *)
(* the full-width question mark, "WSP" the ideographic space.              *)
(* The Latin letters of an utterance are "h" and "H" only, and "[", "]",   *)
(* "TEN", "MARU" name the corner brackets, the ideographic comma and the   *)
(* ideographic full stop; the error texts of the search client are Latin   *)
(* text of their own and never become part of an utterance.                *)
(***************************************************************************)
MaxUtterance == 3

search_keywords ==
    << <<"KEN", "SAKU">>,                              \* kensaku
       <<"CHOU", "be", "te">>,                         \* shirabete
       <<"SAGA", "shi", "te">>,                        \* sagashite
       <<"SAI", "SHIN">>,                              \* saishin
       <<"NI", "YU_", "LONG", "SU">>,                  \* nyuusu (katakana)
       <<"JOU", "HOU">>,                               \* jouhou
       <<"ni", "tsu", "i", "te", "OSHI", "e", "te">>,  \* ni tsuite oshiete
       <<"to", "ha">>,                                 \* to wa
       <<"KATA", "NORI">>,                             \* houhou
       <<"ya", "ri", "KATA">>,                         \* yarikata
       <<"do", "u", "ya", "tsu_", "te">>,              \* dou yatte
       <<"i", "tsu">>,                                 \* itsu
       <<"do", "ko">>,                                 \* doko
       <<"DARE">>,                                     \* dare
       <<"na", "ze">>,                                 \* naze
       <<"NANI">>,                                     \* nani
       <<"GEN", "ZAI">>,                               \* genzai
       <<"IMA">>,                                      \* ima
       <<"IMA", "NICHI">>,                             \* kyou
       <<"2", "0", "2", "4">>,
       <<"2", "0", "2", "5">>,
       <<"SAI", "KIN">>,                               \* saikin
       <<"IMA", "NEN">>,                               \* kotoshi
       <<"IMA", "GETSU">>,                             \* kongetsu
       <<"IMA", "SHUU">> >>                            \* konshuu

question_patterns ==
    << <<"QW">>,
       <<"?">>,
       <<"OSHI", "e", "te">>,                          \* oshiete
       <<"SHIRU", "ri", "ta", "i">>,                   \* shiritai
       <<"BUN", "ka", "ra", "na", "i">> >>             \* wakaranai

remove_phrases ==
    << <<"KEN", "SAKU", "shi", "te">>,                 \* kensaku shite
       <<"CHOU", "be", "te">>,                         \* shirabete
       <<"SAGA", "shi", "te">>,                        \* sagashite
       <<"ni", "tsu", "i", "te", "OSHI", "e", "te">>,  \* ni tsuite oshiete
       <<"to", "ha", "NANI", "de", "su", "ka">>,       \* to wa nan desu ka
       <<"wo", "OSHI", "e", "te">>,                    \* wo oshiete
       <<"ni", "tsu", "i", "te", "SHIRU", "ri", "ta", "i">>,
       <<"do", "u", "de", "su", "ka">>,                \* dou desu ka
       <<"ha", "do", "u">>,                            \* wa dou
       <<"QW">>,
       <<"?">> >>

\* the characters str.split() and str.strip() take for whitespace
Whitespace == {" ", "WSP"}

\* str.lower() of one character: of the characters modelled, only the
\* Latin capital has a lower-case form
LowerChar(c) == IF c = "H" THEN "h" ELSE c
Lower(s) == [i \in 1..Len(s) |-> LowerChar(s[i])]

\* the two loops of should_search, with the variant that lacks the second
AnyKeyword(u) ==
    \E k \in 1..Len(search_keywords) : Contains(Lower(u), search_keywords[k])
AnyPattern(u) ==
    \E k \in 1..Len(question_patterns) : Contains(u, question_patterns[k])

should_search_keywords_only(u) == AnyKeyword(u)
\* ChatHandler.should_search
should_search(u) == AnyKeyword(u) \/ AnyPattern(u)

\* s.replace(p, ""): the occurrences of p, found from the left without
\* overlap, are removed
RECURSIVE RemovePhrase(_, _)
RemovePhrase(s, p) ==
    IF Len(s) < Len(p) THEN s
    ELSE IF SubSeq(s, 1, Len(p)) = p
         THEN RemovePhrase(SubSeq(s, Len(p) + 1, Len(s)), p)
         ELSE <<Head(s)>> \o RemovePhrase(Tail(s), p)

\* for phrase in remove_phrases: query = query.replace(phrase, "")
RECURSIVE RemoveAll(_, _)
RemoveAll(s, k) ==
    IF k > Len(remove_phrases) THEN s
    ELSE RemoveAll(RemovePhrase(s, remove_phrases[k]), k + 1)

\* s.lstrip(), s.rstrip(), s.strip()
RECURSIVE LStrip(_)
LStrip(s) ==
    IF s # <<>> /\ Head(s) \in Whitespace THEN LStrip(Tail(s)) ELSE s
RECURSIVE RStrip(_)
RStrip(s) ==
    IF s # <<>> /\ s[Len(s)] \in Whitespace
    THEN RStrip(SubSeq(s, 1, Len(s) - 1)) ELSE s
Strip(s) == RStrip(LStrip(s))

\* " ".join(s.split()): the words of s with one space between them
RECURSIVE JoinSplit(_)
JoinSplit(s) ==
    LET t == LStrip(s)
    IN IF t = <<>> THEN <<>>
       ELSE IF \E i \in 1..Len(t) : t[i] \in Whitespace
            THEN LET j == CHOOSE i \in 1..Len(t) :
                              /\ t[i] \in Whitespace
                              /\ \A m \in 1..(i - 1) : t[m] \notin Whitespace
                     rest == JoinSplit(SubSeq(t, j, Len(t)))
                 IN SubSeq(t, 1, j - 1)
                    \o (IF rest = <<>> THEN <<>> ELSE <<" ">> \o rest)
            ELSE t

\* what stands for the query when nothing is left of it, with the variant
\* that takes the message as it is
FallbackVerbatim(u) == u
FallbackQuery(u) == Strip(u)

\* ChatHandler.extract_search_query
extract_search_query(u) ==
    LET query == Strip(JoinSplit(RemoveAll(u, 1)))
    IN IF query # <<>> THEN query ELSE FallbackQuery(u)

UtteranceChars ==
    {" ", "WSP", "?", "QW", "h", "H", "CHOU", "be", "te", "IMA"}
Utterances == SeqsUpTo(UtteranceChars, MaxUtterance)

\* should_search(user_message)
ShouldSearchCall ==
    /\ tg_pc = "ready"
    /\ tg_search' = should_search(tg_utterance)
    /\ tg_pc' = "should_search"
    /\ UNCHANGED <<tg_utterance, tg_query>>
    /\ TriggerFrame

\* extract_search_query(user_message)
ExtractQueryCall ==
    /\ tg_pc = "ready"
    /\ tg_query' = extract_search_query(tg_utterance)
    /\ tg_pc' = "extract"
    /\ UNCHANGED <<tg_utterance, tg_search>>
    /\ TriggerFrame

TriggerInit ==
    /\ tg_pc = "ready"
    /\ tg_utterance \in Utterances
    /\ tg_search = FALSE
    /\ tg_query = <<>>
    /\ CoreIdle
    /\ ParamIdle
    /\ FormatIdle
    /\ HeapIdle
    /\ SessionIdle

TriggerNext ==
    \/ ShouldSearchCall
    \/ ExtractQueryCall

TriggerSpec == TriggerInit /\ [][TriggerNext]_vars

(***************************************************************************)
(* The outgoing request of BraveSearchClient.search.  A dict is a function *)
(* from its keys; Python's None is the value PyNone.                       *)
(***************************************************************************)
PyNone == "<None>"

\* truth value of a string or None
IsTruthy(v) == v # PyNone /\ v # ""

HasKey(d, k) == k \in DOMAIN d
\* d.get(k, default)
Get(d, k, default) == IF HasKey(d, k) THEN d[k] ELSE default
\* d[k] = v
Put(d, k, v) == [x \in DOMAIN d \cup {k} |-> IF x = k THEN v ELSE d[x]]

\* if search_lang and search_lang not in ["auto", ""]
LangIncludedIfTruthy(search_lang) == IsTruthy(search_lang)
LangIncluded(search_lang) ==
    IsTruthy(search_lang) /\ search_lang \notin {"auto", ""}

\* params as search passes them to requests.get
build_params(query, count, kwargs) ==
    LET base == [q |-> query, count |-> count,
                 safesearch |-> Get(kwargs, "safesearch", "moderate")]
        search_lang == Get(kwargs, "search_lang", PyNone)
        withLang == IF LangIncluded(search_lang)
                    THEN Put(base, "search_lang", search_lang)
                    ELSE base
        withCountry == IF HasKey(kwargs, "country")
                       THEN Put(withLang, "country", kwargs["country"])
                       ELSE withLang
    IN IF HasKey(kwargs, "freshness")
       THEN Put(withCountry, "freshness", kwargs["freshness"])
       ELSE withCountry

\* the sidebar of app.py
SidebarLangs == {"auto", "ja", "en"}
SidebarSafesearch == {"moderate", "off", "strict"}
SidebarFreshness == {PyNone, "pd", "pw", "pm", "py"}
SidebarMaxResults == {3, 8, 10, 20}
Queries == {"tenki", "news"}

Min(a, b) == IF a <= b THEN a ELSE b

\* search_kwargs of both callers in app.py
search_kwargs(actual_search_lang, safesearch, freshness_value) ==
    LET base == [search_lang |-> actual_search_lang,
                 safesearch |-> safesearch]
    IN IF IsTruthy(freshness_value)
       THEN Put(base, "freshness", freshness_value)
       ELSE base

\* keyword arguments of a caller other than app.py: each key may be absent
AnyLangs == {PyNone, "", "auto", "AUTO", "ja", "en"}
AnyKwargs ==
    { [k \in keys |-> f[k]] :
        keys \in SUBSET {"search_lang", "safesearch", "country", "freshness"},
        f \in [search_lang : AnyLangs, safesearch : {"strict"},
               country : {"JP"}, freshness : {PyNone, "pd"}] }

\* app.py, chat turn: search_with_retry(search_query,
\* count=min(max_results, 8), retries=2, **search_kwargs)
ChatSearchArgs ==
    /\ pm_pc = "ready"
    /\ \E q \in Queries, lang \in SidebarLangs, safe \in SidebarSafesearch,
          fresh \in SidebarFreshness, max_results \in SidebarMaxResults :
          pm_args' = [query |-> q, count |-> Min(max_results, 8),
                      kwargs |-> search_kwargs(lang, safe, fresh)]
    /\ pm_pc' = "called"
    /\ UNCHANGED pm_params
    /\ ParamFrame

\* app.py, search form: search_with_retry(search_query, count=max_results,
\* retries=2, **search_kwargs)
DirectSearchArgs ==
    /\ pm_pc = "ready"
    /\ \E q \in Queries, lang \in SidebarLangs, safe \in SidebarSafesearch,
          fresh \in SidebarFreshness, max_results \in SidebarMaxResults :
          pm_args' = [query |-> q, count |-> max_results,
                      kwargs |-> search_kwargs(lang, safe, fresh)]
    /\ pm_pc' = "called"
    /\ UNCHANGED pm_params
    /\ ParamFrame

\* search(query, count=10, **kwargs) called with any keyword arguments
AnySearchArgs ==
    /\ pm_pc = "ready"
    /\ \E q \in Queries, kw \in AnyKwargs :
          pm_args' = [query |-> q, count |-> 10, kwargs |-> kw]
    /\ pm_pc' = "called"
    /\ UNCHANGED pm_params
    /\ ParamFrame

\* search: params is built and handed to requests.get
BuildParams ==
    /\ pm_pc = "called"
    /\ pm_params' = build_params(pm_args.query, pm_args.count, pm_args.kwargs)
    /\ pm_pc' = "built"
    /\ UNCHANGED pm_args
    /\ ParamFrame

ParamInit ==
    /\ pm_pc = "ready"
    /\ pm_args = EmptyMap
    /\ pm_params = EmptyMap
    /\ CoreIdle
    /\ TriggerIdle
    /\ FormatIdle
    /\ HeapIdle
    /\ SessionIdle

ParamNext ==
    \/ ChatSearchArgs
    \/ DirectSearchArgs
    \/ AnySearchArgs
    \/ BuildParams

ParamSpec == ParamInit /\ [][ParamNext]_vars

(***************************************************************************)
(* The three formatters.  A string of a search result is a Text: the first *)
(* len characters of the strings named in src joined by a separator,       *)
(* followed by "..." when ell is set.  The empty string is NoText.         *)
(***************************************************************************)
MaxItems == 9
DetailedItemLimit == 8
SimpleItemLimit == 5
DetailedDescriptionLimit == 300
SnippetCountLimit == 3
SnippetTextLimit == 200
SnippetSeparatorLen == 3
SchemaCountLimit == 3
SchemaSeparatorLen == 2
SimpleDescriptionLimit == 200
DisplayDescriptionLimit == 150

Text(id, n) == [src |-> <<id>>, len |-> n, ell |-> FALSE]
NoText == [src |-> <<>>, len |-> 0, ell |-> FALSE]

\* s[:limit] + "..." when len(s) > limit
Truncate(t, limit) ==
    IF t.len > limit THEN [src |-> t.src, len |-> limit, ell |-> TRUE] ELSE t

\* sep.join(ts) for a separator of sepLen characters
Join(ts, sepLen) ==
    IF ts = <<>> THEN NoText
    ELSE [src |-> [i \in 1..Len(ts) |-> ts[i].src[1]],
          len |-> SumSeq([i \in 1..Len(ts) |-> ts[i].len])
                  + sepLen * (Len(ts) - 1),
          ell |-> FALSE]

\* placeholders of the formatters
NoTitle == Text("no_title", 6)
NoDescription == Text("no_description", 4)

\* one entry of web.results: keys holds the keys that are present, a field
\* whose key is absent holds NoText or <<>>; meta_url_null says that the
\* value under "meta_url" is JSON null
UrlNames == <<"u1", "u2", "u3", "u4", "u5", "u6", "u7", "u8", "u9", "u10",
              "u11", "u12">>
Item(id, keys, title, description, snippets, schemas) ==
    [id |-> id, keys |-> keys, title |-> title,
     url |-> Text(UrlNames[id], 20), description |-> description,
     hostname |-> Text("host", 11), extra_snippets |-> snippets,
     age |-> Text("age", 10), content_type |-> Text("ctype", 7),
     author |-> Text("author", 8), date |-> Text("date", 10),
     ratingValue |-> Text("rating", 3), reviewCount |-> Text("reviews", 2),
     duration |-> Text("duration", 5), views |-> Text("views", 4),
     schemas |-> schemas, meta_url_null |-> FALSE]
NullMetaItem(id) ==
    [Item(id, {"title", "url", "description", "meta_url"},
          Text("title", 12), Text("d120", 120), <<>>, <<>>)
        EXCEPT !.meta_url_null = TRUE]

\* result.get(key, default)
Field(item, key, default) ==
    IF key \in item.keys THEN item[key] ELSE default

\* search_data: None, or a dict with the keys in keys.  web is the value of
\* "web": JSON null, or an object that may have "results" (null or a list).
\* original is query.original ("" when the response has none).
WebObject(keys, results) ==
    [null |-> FALSE, keys |-> keys, results_null |-> FALSE,
     results |-> results]
WebNull == [null |-> TRUE, keys |-> {}, results_null |-> FALSE,
            results |-> <<>>]
WebResultsNull == [null |-> FALSE, keys |-> {"results"},
                   results_null |-> TRUE, results |-> <<>>]
NoneData == [none |-> TRUE, keys |-> {}, web |-> WebObject({}, <<>>),
             original |-> NoText]
Dict(keys, web, original) ==
    [none |-> FALSE, keys |-> keys, web |-> web, original |-> original]

\* not search_data or "web" not in search_data
NoWebKey(data) == data.none \/ data.keys = {} \/ "web" \notin data.keys
\* not results, for results = web.get("results", [])
NoResults(web) ==
    "results" \notin web.keys \/ web.results_null \/ web.results = <<>>

\* what a formatter returns or raises
LlmSentinel == [kind |-> "no_results", query |-> NoText, count |-> 0,
                blocks |-> <<>>]
DisplaySentinel == [kind |-> "no_results_display", query |-> NoText,
                    count |-> 0, blocks |-> <<>>]
FormatRaised == [kind |-> "raised", query |-> NoText, count |-> 0,
                 blocks |-> <<>>]
Formatted(query, count, blocks) ==
    [kind |-> "text", query |-> query, count |-> count, blocks |-> blocks]
\* one line (or part of a line) of a block: its label and its text
Seg(label, text) == [label |-> label, text |-> text]
\* the segment if the text is not empty
Opt(label, text) == IF text.len > 0 THEN <<Seg(label, text)>> ELSE <<>>

\* format_results_for_llm: the block of results[i - 1]
DetailedBlock(result, i) ==
    LET title == Field(result, "title", NoTitle)
        url == Field(result, "url", NoText)
        description == Field(result, "description", NoText)
        hostname == IF "meta_url" \in result.keys
                    THEN result.hostname ELSE NoText
        extra_snippets == Field(result, "extra_snippets", <<>>)
        schemas == Field(result, "schemas", <<>>)
        schema_types == SelectSeq(Take(schemas, SchemaCountLimit),
                                  LAMBDA t : t.len > 0)
    IN [index |-> i,
        segs |->
            <<Seg("title", title), Seg("url", url)>>
            \o Opt("site", hostname)
            \o (IF description.len > 0
                THEN <<Seg("description",
                           Truncate(description, DetailedDescriptionLimit))>>
                ELSE <<>>)
            \o (IF extra_snippets # <<>>
                THEN <<Seg("snippets",
                           Truncate(Join(Take(extra_snippets,
                                              SnippetCountLimit),
                                         SnippetSeparatorLen),
                                    SnippetTextLimit))>>
                ELSE <<>>)
            \o Opt("age", Field(result, "age", NoText))
            \o Opt("content_type", Field(result, "content_type", NoText))
            \o (IF "article" \in result.keys
                THEN Opt("author", Field(result, "author", NoText))
                     \o Opt("date", Field(result, "date", NoText))
                ELSE <<>>)
            \o (IF "rating" \in result.keys /\ "ratingValue" \in result.keys
                THEN <<Seg("rating", result.ratingValue)>>
                     \o Opt("reviews", Field(result, "reviewCount", NoText))
                ELSE <<>>)
            \o (IF "video" \in result.keys
                THEN Opt("duration", Field(result, "duration", NoText))
                     \o Opt("views", Field(result, "views", NoText))
                ELSE <<>>)
            \o (IF schema_types # <<>>
                THEN <<Seg("schemas", Join(schema_types, SchemaSeparatorLen))>>
                ELSE <<>>)]

\* meta_url.get("hostname", "") on a null meta_url raises
BlockRaises(result) == "meta_url" \in result.keys /\ result.meta_url_null

\* results[:8]
DetailedShownAll(results) == Len(results)
DetailedShown(results) == Min(Len(results), DetailedItemLimit)

format_results_for_llm(search_data) ==
    IF NoWebKey(search_data) THEN LlmSentinel
    ELSE IF search_data.web.null THEN FormatRaised
    ELSE IF NoResults(search_data.web) THEN LlmSentinel
    ELSE LET results == search_data.web.results
         IN IF \E i \in 1..DetailedShown(results) : BlockRaises(results[i])
            THEN FormatRaised
            ELSE Formatted(search_data.original, Len(results),
                           [i \in 1..DetailedShown(results) |->
                               DetailedBlock(results[i], i)])

\* format_results_for_llm_simple and format_search_results_for_display:
\* the entry of results[i - 1]
ShortBlock(result, i, limit) ==
    [index |-> i,
     segs |-> <<Seg("title", Field(result, "title", NoTitle)),
                Seg("url", Field(result, "url", NoText)),
                Seg("description",
                    Truncate(Field(result, "description", NoDescription),
                             limit))>>]

format_results_for_llm_simple(search_data) ==
    IF NoWebKey(search_data) THEN LlmSentinel
    ELSE IF search_data.web.null THEN FormatRaised
    ELSE IF NoResults(search_data.web) THEN LlmSentinel
    ELSE LET results == search_data.web.results
         IN Formatted(NoText, 0,
                      [i \in 1..Min(Len(results), SimpleItemLimit) |->
                          ShortBlock(results[i], i, SimpleDescriptionLimit)])

format_search_results_for_display(search_data) ==
    IF NoWebKey(search_data) THEN DisplaySentinel
    ELSE IF search_data.web.null THEN FormatRaised
    ELSE IF NoResults(search_data.web) THEN DisplaySentinel
    ELSE LET results == search_data.web.results
         IN Formatted(search_data.original, Len(results),
                      [i \in 1..Len(results) |->
                          ShortBlock(results[i], i, DisplayDescriptionLimit)])

\* the shapes of result entries the formatters are run on
ItemShapes == 6
AllItemKeys ==
    {"title", "url", "description", "meta_url", "extra_snippets", "age",
     "content_type", "article", "author", "date", "rating", "ratingValue",
     "reviewCount", "video", "duration", "views", "schemas"}
Shape(k, id) ==
    CASE k = 1 -> Item(id, {}, NoText, NoText, <<>>, <<>>)
      [] k = 2 -> Item(id, {"title", "url", "description"},
                       Text("title", 12), Text("d120", 120), <<>>, <<>>)
      [] k = 3 -> Item(id, {"title", "url", "description", "meta_url",
                            "rating", "reviewCount", "article", "date"},
                       Text("title", 12), Text("d300", 300), <<>>, <<>>)
      [] k = 4 -> Item(id, {"title", "url", "description", "age",
                            "extra_snippets", "rating", "ratingValue"},
                       Text("title", 12), Text("d301", 301),
                       <<Text("s1", 40), Text("s2", 50)>>, <<NoText>>)
      [] k = 5 -> Item(id, AllItemKeys, Text("title", 12), Text("d400", 400),
                       <<Text("s1", 90), Text("s2", 90), Text("s3", 90),
                         Text("s4", 90)>>,
                       <<Text("Article", 7), NoText, Text("Person", 6),
                         Text("Thing", 5)>>)
      [] OTHER -> Item(id, {"title", "url", "description", "extra_snippets"},
                       NoText, NoText, <<>>, <<>>)

\* a result list of n entries, its shapes starting at shape k + 1
Results(n, k) == [i \in 1..n |-> Shape(((i - 1 + k) % ItemShapes) + 1, i)]

FormatInputs ==
    {NoneData,
     Dict({}, WebObject({}, <<>>), NoText),
     Dict({"error"}, WebObject({}, <<>>), NoText),
     Dict({"query"}, WebObject({}, <<>>), Text("q", 5)),
     Dict({"web"}, WebNull, NoText),
     Dict({"web"}, WebResultsNull, NoText),
     Dict({"web", "query"}, WebObject({}, <<>>), Text("q", 5)),
     Dict({"web", "query"}, WebObject({"results"}, <<>>), Text("q", 5))}
    \cup {Dict(keys, WebObject({"results"}, Results(n, k)),
               IF "query" \in keys THEN Text("q", 5) ELSE NoText) :
            keys \in {{"web"}, {"web", "query"}},
            n \in 1..MaxItems, k \in 0..(ItemShapes - 1)}

FormatDetailed ==
    /\ fm_pc = "ready"
    /\ fm_out' = format_results_for_llm(fm_data)
    /\ fm_pc' = "detailed"
    /\ UNCHANGED fm_data
    /\ FormatFrame

FormatSimple ==
    /\ fm_pc = "ready"
    /\ fm_out' = format_results_for_llm_simple(fm_data)
    /\ fm_pc' = "simple"
    /\ UNCHANGED fm_data
    /\ FormatFrame

FormatDisplay ==
    /\ fm_pc = "ready"
    /\ fm_out' = format_search_results_for_display(fm_data)
    /\ fm_pc' = "display"
    /\ UNCHANGED fm_data
    /\ FormatFrame

FormatInit ==
    /\ fm_pc = "ready"
    /\ fm_data \in FormatInputs
    /\ fm_out = EmptyMap
    /\ CoreIdle
    /\ TriggerIdle
    /\ ParamIdle
    /\ HeapIdle
    /\ SessionIdle

FormatNext ==
    \/ FormatDetailed
    \/ FormatSimple
    \/ FormatDisplay

FormatSpec == FormatInit /\ [][FormatNext]_vars

(***************************************************************************)
(* List objects.  A Python list is an object: hp_heap maps an object to    *)
(* its contents, a new list is a new object, an in-place method changes    *)
(* the contents of the object it is called on.                             *)
(***************************************************************************)
\* the object of the caller's list
CallerList == 1

\* _trim_messages(messages, max): for at most one message it returns the
\* object it was given; otherwise messages[1:] and trimmed_messages are new
\* lists, insert acts on trimmed_messages, and trimmed_messages is returned
TrimOnHeap(heap, messages, max) ==
    IF Len(heap[messages]) <= 1
    THEN [heap |-> heap, ret |-> messages]
    ELSE [heap |-> heap \o <<Tail(heap[messages]),
                             trim_messages(heap[messages], max)>>,
          ret |-> Len(heap) + 2]

\* get_response up to the provider call: [system_message] + messages is a
\* new list, which _trim_messages may replace
GetResponseOnHeap(heap, messages, ctx) ==
    LET withFull == Append(heap, FullMessages(heap[messages], ctx))
        full_messages == Len(heap) + 1
    IN IF PromptOverLimit(withFull[full_messages])
       THEN TrimOnHeap(withFull, full_messages, PromptTokenLimit)
       ELSE [heap |-> withFull, ret |-> full_messages]

HeapInputs == Histories

\* _trim_messages(messages, max_tokens) on the caller's list
HeapTrimCall ==
    /\ hp_pc = "ready"
    /\ \E max \in TrimBudgets \cup {PromptTokenLimit} :
          LET r == TrimOnHeap(hp_heap, CallerList, max)
          IN /\ hp_heap' = r.heap
             /\ hp_ret' = r.ret
    /\ hp_pc' = "trimmed"
    /\ UNCHANGED <<tokenizer, hp_before>>
    /\ HeapFrame

\* get_response(messages, search_context) on the caller's list
HeapGetResponseCall ==
    /\ hp_pc = "ready"
    /\ \E ctx \in Contexts :
          LET r == GetResponseOnHeap(hp_heap, CallerList, ctx)
          IN /\ hp_heap' = r.heap
             /\ hp_ret' = r.ret
    /\ hp_pc' = "responded"
    /\ UNCHANGED <<tokenizer, hp_before>>
    /\ HeapFrame

HeapInit ==
    /\ tokenizer \in Tokenizers
    /\ hp_pc = "ready"
    /\ hp_before \in HeapInputs
    /\ hp_heap = <<hp_before>>
    /\ hp_ret = 0
    /\ SearchIdle
    /\ ChatIdle
    /\ TrimIdle
    /\ TriggerIdle
    /\ ParamIdle
    /\ FormatIdle
    /\ SessionIdle

HeapNext ==
    \/ HeapTrimCall
    \/ HeapGetResponseCall

HeapSpec == HeapInit /\ [][HeapNext]_vars

(***************************************************************************)
(* The app: the session state and the handlers of app.py.  A run of the    *)
(* script handles one event; the chat turn is taken in three steps (the    *)
(* user message, the search, the model call), the ask-about-results        *)
(* handler in two (the question, the model call), every other handler in   *)
(* one.  An exception that nothing catches ends the script run; the        *)
(* session keeps what the run had stored.  A handler that adds messages    *)
(* starts only while the transcript holds fewer than MaxMessages messages. *)
(***************************************************************************)
MaxMessages == 3
AppSearchRetries == 2
AppChatRetries == 3

\* the truth value of a result: None and {} are false
DictTruthy(res) == res # NoResult /\ res.keys # {}

\* search_with_retry as a function of what the provider answers to the
\* successive calls
RECURSIVE SearchWithRetry(_, _, _)
SearchWithRetry(rs, attempt, retries) ==
    IF ~(attempt < retries + 1) THEN Failure(MaxRetriesMsg)
    ELSE LET result == search(rs[attempt + 1])
         IN IF IsReturnedAtOnce(result) THEN result
            ELSE IF MentionsRetryCode(result.error)
                    /\ CanRetry(attempt, retries)
                 THEN SearchWithRetry(rs, attempt + 1, retries)
                 ELSE result

\* get_response_with_retry as a function of the provider's outcomes: what
\* it returns and how many times get_response was called
RECURSIVE ChatWithRetry(_, _, _)
ChatWithRetry(os, attempt, retries) ==
    IF ~(attempt < retries)
    THEN [result |-> Returned("diag_fallback"), calls |-> attempt]
    ELSE LET inner == get_response(os[attempt + 1])
         IN IF RetryContinues(inner, attempt, retries)
            THEN ChatWithRetry(os, attempt + 1, retries)
            ELSE [result |-> RetryReturn(inner), calls |-> attempt + 1]

\* the two functions agree with the step-by-step calls of SearchSpec and
\* ChatSpec
SearchWithRetryAgrees ==
    sr_pc = "done" => sr_result = SearchWithRetry(sr_log, 0, sr_retries)
ChatWithRetryAgrees ==
    gr_pc = "done" =>
        /\ gr_result = ChatWithRetry(gr_log, 0, gr_retries).result
        /\ gr_calls = ChatWithRetry(gr_log, 0, gr_retries).calls

\* the document of a result as the formatters read it.  search returns
\* whatever JSON document a 200 answer carries: document 1 has two items,
\* document 2 an empty result list; in document 3 "web" is null, in
\* document 4 "results" is null, document 5 has an item whose "meta_url"
\* is null
ResultData(res) ==
    IF res = NoResult THEN NoneData
    ELSE IF "web" \notin res.keys
         THEN Dict(res.keys, WebObject({}, <<>>), NoText)
         ELSE CASE res.id = 1 ->
                     Dict(res.keys, WebObject({"results"}, Results(2, 3)),
                          Text("q", 5))
                [] res.id = 3 ->
                     Dict(res.keys, WebNull, Text("q", 5))
                [] res.id = 4 ->
                     Dict(res.keys, WebResultsNull, Text("q", 5))
                [] res.id = 5 ->
                     Dict(res.keys,
                          WebObject({"results"}, <<NullMetaItem(1)>>),
                          Text("q", 5))
                [] OTHER ->
                     Dict(res.keys, WebObject({"results"}, <<>>),
                          Text("q", 5))

\* len(search_data.get("web", {}).get("results", [])) raises on a null
\* "web" (None.get) and on a null "results" (len(None))
ResultsCountRaises(data) ==
    /\ "web" \in data.keys
    /\ \/ data.web.null
       \/ "results" \in data.web.keys /\ data.web.results_null

\* the statistics of the sidebar, app.py 157-159, which every script run
\* passes before it comes to a handler: the run ends there by an exception
\* when the count of the stored result raises
StatisticsRaise(results) ==
    DictTruthy(results) /\ ResultsCountRaises(ResultData(results))
RunReachesHandlers == ~StatisticsRaise(ss_results)

\* search_context = None
NoContext == [kind |-> "none", query |-> NoText, count |-> 0,
              blocks |-> <<>>]

\* if search_data and "error" not in search_data (chat turn), and
\* if search_data (search form)
SearchReturned(search_data) == DictTruthy(search_data)
SearchSucceeded(search_data) ==
    DictTruthy(search_data) /\ "error" \notin search_data.keys

\* utils.py; the timestamp of a message is its position in time
add_message_to_chat(chat, role, content) ==
    Append(chat, Msg(role, content, Len(chat) + 1))
clear_chat_history(chat) == <<>>
clear_results_only(results, query) == [results |-> NoResult, query |-> query]
clear_search_results(results, query) ==
    [results |-> NoResult, query |-> <<>>]

\* the question of the ask-about-results button, app.py 331: the stored
\* query between corner brackets, then "ni tsuite, kensaku kekka wo
\* fumaete setsumei shite kudasai."
AskQuestion(query) ==
    <<"[">> \o query \o
    <<"]", "ni", "tsu", "i", "te", "TEN",
      "KEN", "SAKU", "KETSU", "KA", "wo", "FU", "ma", "e", "te",
      "SETSU", "MEI", "shi", "te", "ku", "da", "sa", "i", "MARU">>

\* what the user types, and what the services answer, in a session
AppPrompts == {<<"h">>, <<"h", "?">>, <<"CHOU", "be", "te">>}
DirectQueries == {<<"H">>}
HttpAnswer(status, json, id) ==
    [kind |-> "http", status |-> status, json |-> json, text |-> <<>>,
     id |-> id]
TimeoutAnswer ==
    [kind |-> "timeout", status |-> 0, json |-> "none", text |-> <<>>,
     id |-> 0]
AppSearchLogs ==
    LET ok1 == HttpAnswer(200, "payload", 1)
        ok2 == HttpAnswer(200, "payload", 2)
        busy == HttpAnswer(503, "none", 0)
    IN {<<ok1, ok1, ok1>>, <<ok2, ok1, ok1>>, <<busy, ok1, ok1>>,
        <<busy, busy, busy>>,
        <<HttpAnswer(400, "none", 0), ok1, ok1>>,
        <<HttpAnswer(200, "empty", 0), ok1, ok1>>,
        <<TimeoutAnswer, ok1, ok1>>,
        <<HttpAnswer(200, "payload", 3), ok1, ok1>>,
        <<HttpAnswer(200, "payload", 4), ok1, ok1>>,
        <<HttpAnswer(200, "payload", 5), ok1, ok1>>}
AppModelLogs ==
    {<<o, "content", "content">> :
        o \in {"content", "RateLimitError", "Exception"}}

\* the locals of a chat turn
NoTurn ==
    [prompt |-> <<>>, auto_search |-> FALSE, triggered |-> FALSE,
     searched |-> FALSE, search_data |-> NoResult, stored |-> FALSE,
     search_context |-> NoContext, model_calls |-> 0, response |-> "none"]

\* chat turn, app.py 205-217: the user message is stored and the trigger
\* is evaluated
ChatTurnBegin ==
    /\ ss_pc = "idle"
    /\ RunReachesHandlers
    /\ Len(ss_chat) < MaxMessages
    /\ \E prompt \in AppPrompts, auto_search \in BOOLEAN :
          LET triggered == auto_search /\ should_search(prompt)
          IN /\ ss_chat' = add_message_to_chat(ss_chat, "user", prompt)
             /\ ss_turn' = [NoTurn EXCEPT !.prompt = prompt,
                                          !.auto_search = auto_search,
                                          !.triggered = triggered]
             /\ ss_pc' = IF triggered THEN "search" ELSE "respond"
    /\ UNCHANGED <<ss_results, ss_query>>
    /\ SessionFrame

\* chat turn, app.py 218-253: the search, the context, the stored result
\* and the count of its items.  An exception of the formatter (241, 243)
\* or of the count (248) is caught nowhere: it ends the script run, the
\* first before the result is stored, the second after
ChatTurnSearch ==
    /\ ss_pc = "search"
    /\ \E log \in AppSearchLogs, detailed \in BOOLEAN :
          LET search_query == extract_search_query(ss_turn.prompt)
              search_data == SearchWithRetry(log, 0, AppSearchRetries)
              ok == SearchSucceeded(search_data)
              formatted ==
                  IF detailed
                  THEN format_results_for_llm(ResultData(search_data))
                  ELSE format_results_for_llm_simple(ResultData(search_data))
              format_raised == ok /\ formatted = FormatRaised
              stored == ok /\ ~format_raised
              count_raised ==
                  stored /\ ResultsCountRaises(ResultData(search_data))
          IN /\ ss_turn' = [ss_turn EXCEPT
                               !.searched = TRUE,
                               !.search_data = search_data,
                               !.stored = stored,
                               !.search_context =
                                   IF stored THEN formatted ELSE NoContext]
             /\ ss_results' = IF stored THEN search_data ELSE ss_results
             /\ ss_query' = IF stored THEN search_query ELSE ss_query
             /\ ss_pc' = IF format_raised \/ count_raised
                         THEN "turn_aborted" ELSE "respond"
    /\ UNCHANGED ss_chat
    /\ SessionFrame

\* chat turn, app.py 255-268: the model call and the assistant message
ChatTurnRespond ==
    /\ ss_pc = "respond"
    /\ \E os \in AppModelLogs :
          LET r == ChatWithRetry(os, 0, AppChatRetries)
          IN /\ ss_turn' = [ss_turn EXCEPT !.model_calls = r.calls,
                                           !.response = r.result.kind]
             /\ ss_chat' = add_message_to_chat(ss_chat, "assistant",
                                               <<r.result.kind>>)
    /\ ss_pc' = "turn_done"
    /\ UNCHANGED <<ss_results, ss_query>>
    /\ SessionFrame

\* the script run of the chat turn ends, at its last line or by the
\* exception, and its locals are gone
ChatTurnEnd ==
    /\ ss_pc \in {"turn_done", "turn_aborted"}
    /\ ss_pc' = "idle"
    /\ ss_turn' = NoTurn
    /\ UNCHANGED <<ss_chat, ss_results, ss_query>>
    /\ SessionFrame

\* search form, app.py 297-317
DirectSearch ==
    /\ ss_pc = "idle"
    /\ RunReachesHandlers
    /\ \E search_query \in DirectQueries, log \in AppSearchLogs :
          LET search_data == SearchWithRetry(log, 0, AppSearchRetries)
          IN IF SearchReturned(search_data)
             THEN /\ ss_results' = search_data
                  /\ ss_query' = search_query
             ELSE UNCHANGED <<ss_results, ss_query>>
    /\ UNCHANGED <<ss_pc, ss_chat, ss_turn>>
    /\ SessionFrame

\* the two buttons that call clear_search_results, app.py 173-175, 292-294
ClearSearch ==
    /\ ss_pc = "idle"
    /\ RunReachesHandlers
    /\ ss_results' = clear_search_results(ss_results, ss_query).results
    /\ ss_query' = clear_search_results(ss_results, ss_query).query
    /\ UNCHANGED <<ss_pc, ss_chat, ss_turn>>
    /\ SessionFrame

\* the chat clear button, app.py 168-170
ClearChat ==
    /\ ss_pc = "idle"
    /\ RunReachesHandlers
    /\ ss_chat' = clear_chat_history(ss_chat)
    /\ UNCHANGED <<ss_pc, ss_results, ss_query, ss_turn>>
    /\ SessionFrame

\* the ask-about-results button, app.py 320-336: shown when a result
\* without error is stored and its display (325) did not raise; the
\* question is stored and the context built.  An exception of the
\* formatter (335) ends the script run, the question stored
AskBegin ==
    /\ ss_pc = "idle"
    /\ RunReachesHandlers
    /\ Len(ss_chat) < MaxMessages
    /\ DictTruthy(ss_results)
    /\ "error" \notin ss_results.keys
    /\ format_search_results_for_display(ResultData(ss_results))
           # FormatRaised
    /\ LET question == AskQuestion(ss_query)
           search_context == format_results_for_llm(ResultData(ss_results))
           raised == search_context = FormatRaised
       IN /\ ss_chat' = add_message_to_chat(ss_chat, "user", question)
          /\ ss_turn' = IF raised THEN NoTurn
                        ELSE [NoTurn EXCEPT
                                 !.prompt = question,
                                 !.search_context = search_context]
          /\ ss_pc' = IF raised THEN "idle" ELSE "ask"
    /\ UNCHANGED <<ss_results, ss_query>>
    /\ SessionFrame

\* the ask-about-results button, app.py 338-346: the model call, the
\* assistant message, and the rerun that ends the script run
AskRespond ==
    /\ ss_pc = "ask"
    /\ \E os \in AppModelLogs :
          LET r == ChatWithRetry(os, 0, AppChatRetries)
          IN ss_chat' = add_message_to_chat(ss_chat, "assistant",
                                            <<r.result.kind>>)
    /\ ss_pc' = "idle"
    /\ ss_turn' = NoTurn
    /\ UNCHANGED <<ss_results, ss_query>>
    /\ SessionFrame

\* initialize_session_state
AppInit ==
    /\ ss_pc = "idle"
    /\ ss_chat = <<>>
    /\ ss_results = NoResult
    /\ ss_query = <<>>
    /\ ss_turn = NoTurn
    /\ CoreIdle
    /\ TriggerIdle
    /\ ParamIdle
    /\ FormatIdle
    /\ HeapIdle

AppNext ==
    \/ ChatTurnBegin
    \/ ChatTurnSearch
    \/ ChatTurnRespond
    \/ ChatTurnEnd
    \/ DirectSearch
    \/ ClearSearch
    \/ ClearChat
    \/ AskBegin
    \/ AskRespond

AppSpec == AppInit /\ [][AppNext]_vars

\* utils.py 130-152, load_chat_history: a file that opens and parses as
\* JSON replaces the transcript and the call returns True; a missing or
\* malformed file leaves the transcript and the call returns False.
\* app.py never calls it.
HistoryFiles ==
    {[kind |-> "missing", value |-> <<>>],
     [kind |-> "malformed", value |-> <<>>],
     [kind |-> "json", value |-> <<>>],
     [kind |-> "json", value |-> <<Msg("user", <<"h">>, 1)>>],
     [kind |-> "json", value |-> <<Msg("assistant", <<"content">>, 1)>>]}
load_chat_history(chat, file) ==
    IF file.kind = "json"
    THEN [chat |-> file.value, ok |-> TRUE]
    ELSE [chat |-> chat, ok |-> FALSE]

LoadChatHistory ==
    /\ ss_pc = "idle"
    /\ \E file \in HistoryFiles :
          ss_chat' = load_chat_history(ss_chat, file).chat
    /\ UNCHANGED <<ss_pc, ss_results, ss_query, ss_turn>>
    /\ SessionFrame

\* the app with a caller of load_chat_history added
LoadNext == AppNext \/ LoadChatHistory
LoadSpec == AppInit /\ [][LoadNext]_vars

(***************************************************************************)
(* Properties.                                                             *)
(***************************************************************************)

\* C1: get_response_with_retry retries rate-limit failures: when the
\* provider raises a rate-limit error on attempt i (from 0) and
\* i < retries - 1, the client sleeps 2^i and calls the provider again, so
\* a finished call never ends on such an attempt.
ClaimC1_RateLimitRetried ==
    gr_pc = "done" =>
        \A i \in 1..Len(gr_log) :
            (gr_log[i] = "RateLimitError" /\ i - 1 < gr_retries - 1)
                => (Len(gr_log) > i /\ gr_calls > i /\ gr_slept >= Pow2(i - 1))

\* C2: search_with_retry treats a timeout as retryable: when an attempt
\* times out and attempts remain, it backs off and issues another request
\* instead of returning the failure.
ClaimC2_TimeoutRetried ==
    sr_pc = "done" =>
        \A i \in 1..Len(sr_log) :
            (sr_log[i].kind = "timeout" /\ i - 1 < sr_retries)
                => (Len(sr_log) > i /\ sr_slept > 0)

\* a terminal failure: a status outside {200, 429, 502, 503, 504}, or a 200
\* whose body does not parse
IsTerminal(r) ==
    /\ r.kind = "http"
    /\ \/ r.status \notin (RetryStatuses \cup {200})
       \/ (r.status = 200 /\ r.json = "malformed")

\* C3: search_with_retry never retries a terminal failure, whatever the
\* response body or exception text holds: the attempt that got it is the
\* last one, the call has returned that failure, and nothing was slept for it.
ClaimC3_TerminalNotRetried ==
    \A i \in 1..Len(sr_log) :
        IsTerminal(sr_log[i]) =>
            /\ i = Len(sr_log)
            /\ sr_pc = "done"
            /\ sr_result = search(sr_log[i])

Is503(r) == r.kind = "http" /\ r.status = 503
IsSuccess200(r) == r.kind = "http" /\ r.status = 200 /\ r.json = "payload"
All503(log, k) == \A i \in 1..k : Is503(log[i])

\* C4: against a provider that answers 503 exactly k <= retries times and
\* then 200, search_with_retry returns the payload of the 200 after exactly
\* k+1 network calls and a total sleep of 2^k - 1; while only 503s have been
\* seen and attempts remain, the call has not returned and has slept
\* 2^j - 1 after j of them.
InvC4_Backoff503 ==
    /\ (sr_pc = "done" /\ Len(sr_log) >= 1
        /\ All503(sr_log, Len(sr_log) - 1)
        /\ IsSuccess200(sr_log[Len(sr_log)]))
       => /\ sr_result = Payload(sr_log[Len(sr_log)].id)
          /\ sr_calls = Len(sr_log)
          /\ Len(sr_log) - 1 <= sr_retries
          /\ sr_slept = Pow2(Len(sr_log) - 1) - 1
    /\ (Len(sr_log) >= 1 /\ Len(sr_log) <= sr_retries
        /\ All503(sr_log, Len(sr_log)))
       => /\ sr_pc = "loop"
          /\ sr_calls = Len(sr_log)
          /\ sr_slept = Pow2(Len(sr_log)) - 1

\* C4 witness: two 503s, then a 200 whose payload is returned after three
\* calls and 1 + 2 time units of sleep
WitC4_Two503ThenPayload ==
    /\ sr_pc = "done"
    /\ Len(sr_log) = 3
    /\ All503(sr_log, 2)
    /\ IsSuccess200(sr_log[3])
    /\ sr_result = Payload(sr_log[3].id)
    /\ sr_slept = 3

IsRetryableStatus(r) == r.kind = "http" /\ r.status \in RetryStatuses

\* C5: with retries = n >= 0, search_with_retry makes at most n+1 network
\* calls, one per attempt, and when every attempt failed with a retryable
\* status it returns the failure of attempt n+1, the last one.
InvC5_BoundedCalls ==
    sr_retries >= 0 =>
        /\ sr_calls <= sr_retries + 1
        /\ sr_calls = Len(sr_log)
        /\ sr_calls = sr_attempt + (IF sr_pc = "done" THEN 1 ELSE 0)
        /\ (sr_pc = "done"
            /\ \A i \in 1..Len(sr_log) : IsRetryableStatus(sr_log[i]))
           => /\ sr_calls = sr_retries + 1
              /\ sr_result = search(sr_log[sr_retries + 1])
              /\ "error" \in sr_result.keys

\* C5 witness: retries = 2, three retryable failures, the third one's
\* failure (different from the first one's) is returned
WitC5_LastFailureReturned ==
    /\ sr_pc = "done"
    /\ sr_retries = 2
    /\ sr_calls = 3
    /\ \A i \in 1..3 : IsRetryableStatus(sr_log[i])
    /\ sr_result = search(sr_log[3])
    /\ sr_result # search(sr_log[1])
    /\ sr_result # search(sr_log[2])

DiagnosticKinds ==
    {"diag_rate_limit", "diag_auth", "diag_api_error", "diag_unexpected",
     "diag_no_choices", "diag_no_message", "diag_null_content",
     "diag_blank_content", "diag_retry_rate_limit", "diag_retry_error",
     "diag_fallback"}

\* C6: get_response and get_response_with_retry never propagate a fault:
\* for every provider outcome both return a string, a failure outcome gives
\* a diagnostic string, and an answer gives the answer's content.
InvC6_NoFaultPropagates ==
    /\ gr_inner.raised = "none"
    /\ gr_result.raised = "none"
    /\ gr_pc = "done" =>
        /\ gr_result.kind \in DiagnosticKinds \cup {"content"}
        /\ (gr_log # <<>> /\ gr_log[Len(gr_log)] # "content")
            => (gr_result.kind \in DiagnosticKinds
                /\ gr_inner.kind \in DiagnosticKinds)
        /\ (gr_log # <<>> /\ gr_log[Len(gr_log)] = "content")
            => gr_result.kind = "content"

\* C6 witness: the provider raised an exception of no special class and the
\* caller got the diagnostic for it
WitC6_ExceptionBecomesText ==
    /\ gr_pc = "done"
    /\ gr_log = <<"Exception">>
    /\ gr_inner = Returned("diag_unexpected")
    /\ gr_result = Returned("diag_unexpected")

\* how many of the most recent messages fit beside the system message
KeepCount(messages, max) ==
    LET conv == Tail(messages)
        n == Len(conv)
        fits(l) == count_tokens(messages[1].content)
                   + SumTokens(SubSeq(conv, n - l + 1, n)) <= max
        S == {l \in 0..n : fits(l)}
    IN IF S = {} THEN 0 ELSE CHOOSE l \in S : \A m \in S : m <= l

\* C7: _trim_messages returns the system message followed by the longest
\* suffix of the other messages whose estimates, added to the system
\* message's, stay <= the budget, in their original order.
InvC7_LongestSuffix ==
    tr_pc = "returned" =>
        LET conv == Tail(tr_messages)
            k == KeepCount(tr_messages, tr_max)
        IN tr_out = <<tr_messages[1]>>
                    \o SubSeq(conv, Len(conv) - k + 1, Len(conv))

\* C7 witness: a system message of estimate 50, five messages of estimate
\* 100, budget 250: the system message and the two most recent are kept
WitC7_Keep2Of5 ==
    /\ tr_pc = "returned"
    /\ tokenizer = "unknown_model"
    /\ tr_max = 250
    /\ Len(tr_messages) = 6
    /\ count_tokens(tr_messages[1].content) = 50
    /\ \A i \in 2..6 : count_tokens(tr_messages[i].content) = 100
    /\ tr_out = <<tr_messages[1], tr_messages[5], tr_messages[6]>>

\* C8: for every history, the messages sent to the provider hold exactly
\* one system message and it is the first one, with or without search
\* context, trimmed or not.
ClaimC8_OneSystemFirst ==
    gr_calls > 0 =>
        /\ Len(gr_sent) >= 1
        /\ gr_sent[1].role = "system"
        /\ Cardinality({i \in 1..Len(gr_sent) : gr_sent[i].role = "system"}) = 1
        /\ gr_sent[1].content = SystemContent(gr_context)

\* what does hold: the first message sent is the system message that
\* get_response built, and every other system message sent is one of the
\* history
FrameC8_BuiltSystemFirst ==
    gr_calls > 0 =>
        /\ Len(gr_sent) >= 1
        /\ gr_sent[1].role = "system"
        /\ gr_sent[1].content = SystemContent(gr_context)
        /\ \A i \in 2..Len(gr_sent) :
               \E j \in 1..Len(gr_messages) : gr_sent[i] = gr_messages[j]
FrameC8_OneSystemWithoutSystemHistory ==
    (gr_calls > 0 /\ \A j \in 1..Len(gr_messages) :
                        gr_messages[j].role # "system")
        => Cardinality({i \in 1..Len(gr_sent) :
                           gr_sent[i].role = "system"}) = 1

\* C9: whenever get_response calls the provider, the token estimates of the
\* messages it sends sum to at most 4000, in every configuration of the
\* tokenizer.
ClaimC9_PromptWithinBudget ==
    gr_calls > 0 => SumTokens(gr_sent) <= PromptTokenLimit

\* the first k lines of a text, each followed by a newline
LinePrefix(ctx, k) == IF k = 0 THEN EmptyText ELSE SubSeq(ctx, 1, k) \o EmptyText

\* the longest such prefix whose estimate is within the context limit
LongestLinePrefix(ctx) ==
    LET S == {k \in 0..Len(ctx) :
                 count_tokens(LinePrefix(ctx, k)) <= ContextTokenLimit}
    IN LinePrefix(ctx, CHOOSE k \in S : \A m \in S : m <= k)

\* C10: whenever a search context is supplied, what is appended to the
\* system message is the context itself when its estimate is <= 2000, and
\* otherwise the longest prefix of its whole lines whose estimate is <= 2000
\* followed by the truncation notice.
ClaimC10_ContextWithinBudget ==
    (gr_calls > 0 /\ Truthy(gr_context)) =>
        gr_ctx_used =
            IF count_tokens(gr_context) <= ContextTokenLimit
            THEN gr_context
            ELSE Concat(LongestLinePrefix(gr_context),
                        Concat(NewlineText, Str(NoticeLen)))

\* the message has a character that is not whitespace
HasText(u) == \E i \in 1..Len(u) : u[i] \notin Whitespace

\* nothing but whitespace is left of the message once the filler phrases
\* are removed
NothingLeft(u) == ~HasText(RemoveAll(u, 1))

\* the message without its leading and trailing whitespace
Trimmed(u) ==
    IF ~HasText(u) THEN <<>>
    ELSE LET first == CHOOSE i \in 1..Len(u) :
                          /\ u[i] \notin Whitespace
                          /\ \A m \in 1..(i - 1) : u[m] \in Whitespace
             last == CHOOSE i \in 1..Len(u) :
                         /\ u[i] \notin Whitespace
                         /\ \A m \in (i + 1)..Len(u) : u[m] \in Whitespace
         IN SubSeq(u, first, last)

\* C11 as stated: extract_search_query never returns an empty query, and
\* when removing the filler phrases leaves nothing the result is the
\* utterance verbatim.
ClaimC11_NeverEmptyVerbatim ==
    tg_pc = "extract" =>
        /\ tg_query # <<>>
        /\ NothingLeft(tg_utterance) => tg_query = tg_utterance

\* C11 amended: for every utterance that has a character other than
\* whitespace the query is not empty, and when removing the filler phrases
\* leaves nothing the result is the utterance without its leading and
\* trailing whitespace.
InvC11_NonEmptyTrimmed ==
    tg_pc = "extract" =>
        /\ HasText(tg_utterance) => tg_query # <<>>
        /\ NothingLeft(tg_utterance) => tg_query = Trimmed(tg_utterance)

\* C11 witness: an utterance of a space and a filler phrase, of which
\* nothing is left, comes back without the space
WitC11_FallbackStripped ==
    /\ tg_pc = "extract"
    /\ tg_utterance = <<" ", "QW">>
    /\ NothingLeft(tg_utterance)
    /\ tg_query = <<"QW">>

\* the members of the keyword set and of the question-marker set
KeywordSet == {search_keywords[k] : k \in 1..Len(search_keywords)}
MarkerSet == {question_patterns[k] : k \in 1..Len(question_patterns)}

\* C12: should_search is true exactly when the utterance contains a member
\* of the keyword set or of the question-marker set.
InvC12_TriggerExact ==
    tg_pc = "should_search" =>
        (tg_search <=> \E w \in KeywordSet \cup MarkerSet :
                           Contains(tg_utterance, w))

\* C12 witness: an utterance that ends in a question mark and holds no
\* keyword triggers the search
WitC12_QuestionMark ==
    /\ tg_pc = "should_search"
    /\ tg_utterance = <<"h", "QW">>
    /\ ~AnyKeyword(tg_utterance)
    /\ tg_search

\* C12 witness of the other side: hello does not trigger
WitC12_NoTrigger ==
    /\ tg_pc = "should_search"
    /\ tg_utterance = <<"h">>
    /\ ~tg_search

(***************************************************************************)
(* C13.  The outgoing request carries search_lang if and only if the       *)
(* language hint is a concrete code: for a hint of "auto", the empty       *)
(* string or an absent hint (no search_lang keyword, or None) the          *)
(* parameter is omitted, and for any other hint it is included with that   *)
(* value.                                                                  *)
(***************************************************************************)
LanguageHint == Get(pm_args.kwargs, "search_lang", PyNone)
ConcreteCode(h) == h \notin {PyNone, "", "auto"}

InvC13_LangParam ==
    pm_pc = "built" =>
        /\ HasKey(pm_params, "search_lang") <=> ConcreteCode(LanguageHint)
        /\ HasKey(pm_params, "search_lang") =>
               pm_params["search_lang"] = LanguageHint

\* the chat turn searches with the sidebar on "auto": no search_lang is sent
WitC13_AutoOmitted ==
    /\ pm_pc = "built"
    /\ LanguageHint = "auto"
    /\ pm_args.count = 8
    /\ ~HasKey(pm_params, "search_lang")

\* a concrete code is sent as given
WitC13_CodeIncluded ==
    /\ pm_pc = "built"
    /\ LanguageHint = "ja"
    /\ HasKey(pm_params, "search_lang")
    /\ pm_params["search_lang"] = "ja"

(***************************************************************************)
(* C14.  format_results_for_llm emits one block per item for the first     *)
(* min(n, 8) items of an n-item response, in response order; a description *)
(* longer than 300 characters is emitted as exactly its first 300          *)
(* characters followed by the ellipsis marker, a shorter one unchanged     *)
(* (an empty or missing one has no line to emit).                          *)
(***************************************************************************)
HasItems(data) ==
    /\ ~data.none
    /\ "web" \in data.keys
    /\ ~data.web.null
    /\ "results" \in data.web.keys
    /\ ~data.web.results_null
    /\ Len(data.web.results) > 0

\* the texts a block emits under a label
Emitted(block, label) ==
    LET hits == SelectSeq(block.segs, LAMBDA g : g.label = label)
    IN [j \in 1..Len(hits) |-> hits[j].text]

DescriptionOf(item) ==
    IF "description" \in item.keys THEN item.description ELSE NoText

InvC14_DetailedBlocks ==
    (fm_pc = "detailed" /\ HasItems(fm_data)) =>
        LET items == fm_data.web.results
            n == Len(items)
        IN /\ fm_out.kind = "text"
           /\ Len(fm_out.blocks) = (IF n < 8 THEN n ELSE 8)
           /\ \A i \in 1..Len(fm_out.blocks) :
                 LET block == fm_out.blocks[i]
                     d == DescriptionOf(items[i])
                 IN /\ block.index = i
                    /\ "url" \in items[i].keys =>
                           Emitted(block, "url") = <<items[i].url>>
                    /\ d.len > 300 =>
                           Emitted(block, "description") =
                               <<[src |-> d.src, len |-> 300, ell |-> TRUE]>>
                    /\ (d.len > 0 /\ d.len <= 300) =>
                           Emitted(block, "description") = <<d>>
                    /\ d.len = 0 => Emitted(block, "description") = <<>>

\* nine items: eight blocks, and a description of 400 characters among them
\* is cut to 300 characters and the marker
WitC14_NineItemsEightBlocks ==
    /\ fm_pc = "detailed"
    /\ HasItems(fm_data)
    /\ Len(fm_data.web.results) = 9
    /\ Len(fm_out.blocks) = 8
    /\ \E i \in 1..8 :
          /\ DescriptionOf(fm_data.web.results[i]).len = 400
          /\ Emitted(fm_out.blocks[i], "description") =
                 <<[src |-> <<"d400">>, len |-> 300, ell |-> TRUE]>>

(***************************************************************************)
(* C15.  Each of the three formatters returns its fixed no-results         *)
(* sentinel, and does not raise, whenever the input is a failure value, is *)
(* empty or None, has no "web" entry, or has a web entry without results   *)
(* (a null entry, an object without a result list) or with an empty result *)
(* list.                                                                   *)
(***************************************************************************)
IsFailureValue(data) == ~data.none /\ "error" \in data.keys
IsEmptyOrNone(data) == data.none \/ data.keys = {}
LacksWeb(data) == ~data.none /\ "web" \notin data.keys
\* the "web" entry is there and is null
WebIsNull(data) == ~data.none /\ "web" \in data.keys /\ data.web.null
\* the "web" entry is an object without a result list, or with a null or
\* empty one
EmptyResultList(data) ==
    /\ ~data.none
    /\ "web" \in data.keys
    /\ ~data.web.null
    /\ \/ "results" \notin data.web.keys
       \/ data.web.results_null
       \/ data.web.results = <<>>

NothingToShow(data) ==
    \/ IsFailureValue(data)
    \/ IsEmptyOrNone(data)
    \/ LacksWeb(data)
    \/ WebIsNull(data)
    \/ EmptyResultList(data)

SentinelReturned ==
    /\ fm_out.kind # "raised"
    /\ fm_pc \in {"detailed", "simple"} => fm_out = LlmSentinel
    /\ fm_pc = "display" => fm_out = DisplaySentinel

ClaimC15_SentinelNoRaise ==
    (fm_pc \in {"detailed", "simple", "display"} /\ NothingToShow(fm_data))
        => SentinelReturned

\* what does hold: the sentinel is returned in each of these cases but the
\* null "web" entry, where each of the three formatters raises
FrameC15_SentinelUnlessWebNull ==
    (fm_pc \in {"detailed", "simple", "display"} /\ NothingToShow(fm_data))
        => IF WebIsNull(fm_data)
           THEN fm_out = FormatRaised
           ELSE SentinelReturned

(***************************************************************************)
(* C16.  Neither get_response nor _trim_messages mutates the list it is    *)
(* given: after either call the caller's list has the same length, the     *)
(* same messages in the same order and the same contents as before; and    *)
(* the list _trim_messages returns is a separate list, not the one it was  *)
(* given.                                                                  *)
(***************************************************************************)
CallerListKept == hp_heap[CallerList] = hp_before
ReturnsSeparateList == hp_ret # CallerList

ClaimC16_NoMutationSeparateList ==
    /\ hp_pc \in {"trimmed", "responded"} => CallerListKept
    /\ hp_pc = "trimmed" => ReturnsSeparateList

\* the part of C16 about the caller's list alone
FrameC16_CallerListKept ==
    hp_pc \in {"trimmed", "responded"} => CallerListKept

\* with two or more messages the returned list is a new one
FrameC16_SeparateWhenSeveral ==
    (hp_pc = "trimmed" /\ Len(hp_before) > 1) => ReturnsSeparateList

(***************************************************************************)
(* C17.  In every chat turn the model call is made exactly once and only   *)
(* after search_with_retry has returned; the search context passed to it   *)
(* is present if and only if auto search is on, should_search accepted the *)
(* utterance and the search returned a non-empty value without an error;   *)
(* a failed or untriggered search leads to a model call with no search     *)
(* context, never to an aborted turn.                                      *)
(***************************************************************************)
ContextPresent == ss_turn.search_context # NoContext
SearchGaveResult ==
    /\ ss_turn.search_data # NoResult
    /\ ss_turn.search_data.keys # {}
    /\ "error" \notin ss_turn.search_data.keys

\* a turn that came to its end made the one model call, with the context
\* the claim says, and ended with the assistant's message
CompletedTurn ==
    ss_pc = "turn_done" =>
        /\ ss_turn.model_calls = 1
        /\ ContextPresent <=>
               (/\ ss_turn.auto_search
                /\ should_search(ss_turn.prompt)
                /\ SearchGaveResult)
        /\ ss_chat[Len(ss_chat)].role = "assistant"
        /\ ss_chat[Len(ss_chat)].content = <<ss_turn.response>>
ModelCallAfterSearch ==
    /\ ss_pc \in {"search", "respond"} => ss_turn.model_calls = 0
    /\ ss_pc = "search" => ~ss_turn.searched
    /\ (ss_pc \in {"respond", "turn_done"} /\ ss_turn.triggered) =>
           ss_turn.searched

\* C17: one model call in every chat turn, after the search, with the
\* context exactly when the search gave a result; no turn is aborted
ClaimC17_OneModelCallNeverAborted ==
    /\ ModelCallAfterSearch
    /\ CompletedTurn
    /\ ss_pc # "turn_aborted"

\* what does hold: the order of the calls, the completed turns, and a turn
\* is aborted only after a search that gave a result without error, on
\* which the formatter or the count of the items raised; no model call is
\* made then and the user's message stays the last one
FrameC17_AbortedOnlyOnResult ==
    /\ ModelCallAfterSearch
    /\ CompletedTurn
    /\ ss_pc = "turn_aborted" =>
           /\ ss_turn.triggered
           /\ SearchGaveResult
           /\ ss_turn.model_calls = 0
           /\ ss_chat[Len(ss_chat)].role = "user"
           /\ ss_chat[Len(ss_chat)].content = ss_turn.prompt
           /\ \/ ~ss_turn.stored
              \/ ResultsCountRaises(ResultData(ss_turn.search_data))

(***************************************************************************)
(* C18.  After any sequence of chat turns, ask-about-results actions and   *)
(* chat clears from the initial empty session, the transcript has even     *)
(* length and its roles alternate user, assistant, user, assistant; a turn *)
(* appends one user message and then one assistant message, also when the  *)
(* model call fails.                                                       *)
(***************************************************************************)
Alternates(chat) ==
    \A i \in 1..Len(chat) :
        chat[i].role = (IF i % 2 = 1 THEN "user" ELSE "assistant")

\* C18: the transcript alternates user, assistant and is even whenever no
\* handler is at work; every turn appends both messages
ClaimC18_AlternatingTranscript ==
    /\ Alternates(ss_chat)
    /\ ss_pc \in {"idle", "turn_done", "turn_aborted"} =>
           Len(ss_chat) % 2 = 0
    /\ ss_pc \in {"search", "respond", "ask"} =>
           /\ Len(ss_chat) % 2 = 1
           /\ ss_chat[Len(ss_chat)].content = ss_turn.prompt

\* what does hold: an assistant message always follows a user message,
\* and while a handler waits for the search or the model the last message
\* is the user's message of that handler
FrameC18_AnswerFollowsQuestion ==
    /\ \A i \in 1..Len(ss_chat) :
           ss_chat[i].role = "assistant" =>
               i > 1 /\ ss_chat[i - 1].role = "user"
    /\ ss_pc \in {"search", "respond", "ask", "turn_aborted"} =>
           /\ ss_chat[Len(ss_chat)].role = "user"
           /\ ss_chat[Len(ss_chat)].content = ss_turn.prompt
    /\ ss_pc = "turn_done" =>
           /\ ss_chat[Len(ss_chat)].role = "assistant"
           /\ ss_chat[Len(ss_chat) - 1].content = ss_turn.prompt

(***************************************************************************)
(* C19.  After any sequence of chat-triggered searches, direct searches    *)
(* and clear_search_results calls from the initial session: whenever       *)
(* search_results is None, current_search_query is the empty string; and a *)
(* chat-triggered search stores its result, together with its query, only  *)
(* when the result carries no error.                                       *)
(***************************************************************************)
InvC19_ResultAndQueryTogether ==
    /\ ss_results = NoResult => ss_query = <<>>
    /\ (ss_pc \in {"respond", "turn_done", "turn_aborted"}
        /\ ss_turn.stored) =>
           /\ "error" \notin ss_turn.search_data.keys
           /\ ss_results = ss_turn.search_data
           /\ ss_query = extract_search_query(ss_turn.prompt)
    /\ (ss_pc \in {"respond", "turn_done", "turn_aborted"}
        /\ ss_turn.searched
        /\ "error" \in ss_turn.search_data.keys) => ~ss_turn.stored

\* a chat-triggered search failed while an earlier result is stored: the
\* stored result and query stay
WitC19_FailedChatSearchKeepsStored ==
    /\ ss_pc = "respond"
    /\ ss_turn.searched
    /\ "error" \in ss_turn.search_data.keys
    /\ ~ss_turn.stored
    /\ ss_results = Payload(1)
    /\ ss_query = <<"H">>

\* a cleared session after a stored search
WitC19_Cleared ==
    /\ ss_pc = "idle"
    /\ ss_results = NoResult
    /\ ss_query = <<>>
    /\ Len(ss_chat) = 2
    /\ ss_chat[1].content = <<"h", "?">>

====
